---- MODULE Spec2Model ----
(***************************************************************************)
(* Model of codepage_formatter.py (Codepage Formatter): the vendor file    *)
(* parser, the description resolver, the description map store, the        *)
(* codepage rewriter and the command-line pipeline.                        *)
(*                                                                         *)
(* A Python str is modelled as a sequence of one-character strings, so     *)
(* that startswith, split, strip, slicing, upper and the "{:04x}" format   *)
(* are computed character by character.  A Python dict is a function.      *)
(* An exception is modelled by its class name; "none" means the call       *)
(* returned normally.                                                      *)
(***************************************************************************)
EXTENDS Integers, Sequences, FiniteSets, TLC

VARIABLES
    data,        \* self.data of the CodepageFormatter object
    stored,      \* the persisted description map file (description_map_filename)
    cp_source,   \* the files of cp_source_dir, by short filename
    cp_dest,     \* the files of cp_dest_dir, by short filename
    args,        \* the parsed command line (args.update, args.filename)
    pc,          \* position of the __main__ script
    idx,         \* index of the current iteration of the running for loop
    raised,      \* exception raised by the last call, "none" if it returned
    last         \* the last method call: its name, arguments and pre-state

vars == <<data, stored, cp_source, cp_dest, args, pc, idx, raised, last>>

----------------------------------------------------------------------------
(* Bounds of the model *)

\* longest vendor file, in lines, drawn as an input
MaxLines == 3
\* most --update pairs on a command line
MaxUpdates == 2
\* most target filenames on a command line
MaxTargets == 2

----------------------------------------------------------------------------
(* Sample text *)

\* "* Code Page : 923"
LineHeader ==
    <<"*", " ", "C", "o", "d", "e", " ", "P", "a", "g", "e", " ", ":", " ",
    "9", "2", "3">>

\* "* Code Page : 37:x"
LineHeaderTwoColons ==
    <<"*", " ", "C", "o", "d", "e", " ", "P", "a", "g", "e", " ", ":", " ",
    "3", "7", ":", "x">>

\* "* Code Page 923"
LineHeaderNoColon ==
    <<"*", " ", "C", "o", "d", "e", " ", "P", "a", "g", "e", " ", "9", "2",
    "3">>

\* "41 LA020000        LATIN CAPITAL LETTER A"
LineRecA ==
    <<"4", "1", " ", "L", "A", "0", "2", "0", "0", "0", "0", " ", " ", " ",
    " ", " ", " ", " ", " ", "L", "A", "T", "I", "N", " ", "C", "A", "P",
    "I", "T", "A", "L", " ", "L", "E", "T", "T", "E", "R", " ", "A">>

\* "41 LATIN CAPITAL LETTER A"
LineRecSpecA ==
    <<"4", "1", " ", "L", "A", "T", "I", "N", " ", "C", "A", "P", "I", "T",
    "A", "L", " ", "L", "E", "T", "T", "E", "R", " ", "A">>

\* "80 SC200000        Euro Sign"
LineRecEuro ==
    <<"8", "0", " ", "S", "C", "2", "0", "0", "0", "0", "0", " ", " ", " ",
    " ", " ", " ", " ", " ", "E", "u", "r", "o", " ", "S", "i", "g", "n">>

\* "C1 LA020000        LATIN CAPITAL LETTER A"
LineRecC1 ==
    <<"C", "1", " ", "L", "A", "0", "2", "0", "0", "0", "0", " ", " ", " ",
    " ", " ", " ", " ", " ", "L", "A", "T", "I", "N", " ", "C", "A", "P",
    "I", "T", "A", "L", " ", "L", "E", "T", "T", "E", "R", " ", "A">>

\* "4a LA020000        x"
LineLowerHex ==
    <<"4", "a", " ", "L", "A", "0", "2", "0", "0", "0", "0", " ", " ", " ",
    " ", " ", " ", " ", " ", "x">>

\* "9F SC200000        Euro Sign"
LineRecEbcdicEuro ==
    <<"9", "F", " ", "S", "C", "2", "0", "0", "0", "0", "0", " ", " ", " ",
    " ", " ", " ", " ", " ", "E", "u", "r", "o", " ", "S", "i", "g", "n">>

\* "4A SC040000        Cent Sign"
LineRecCent ==
    <<"4", "A", " ", "S", "C", "0", "4", "0", "0", "0", "0", " ", " ", " ",
    " ", " ", " ", " ", " ", "C", "e", "n", "t", " ", "S", "i", "g", "n">>

\* "LATIN CAPITAL LETTER A"
DescLatinA ==
    <<"L", "A", "T", "I", "N", " ", "C", "A", "P", "I", "T", "A", "L", " ",
    "L", "E", "T", "T", "E", "R", " ", "A">>

\* "Euro Sign"
DescEuro ==
    <<"E", "u", "r", "o", " ", "S", "i", "g", "n">>

\* the lines vendor files are drawn from
LineSet ==
    {LineHeader, LineHeaderTwoColons, LineHeaderNoColon, LineRecA,
     LineRecSpecA, LineRecEuro, LineRecC1, LineLowerHex}

----------------------------------------------------------------------------
(* str methods *)

\* the characters str.strip() removes that occur in the sample text
Whitespace == {" ", "\t", "\r"}

RECURSIVE lstrip(_)
lstrip(s) ==
    IF s # <<>> /\ Head(s) \in Whitespace THEN lstrip(Tail(s)) ELSE s

RECURSIVE rstrip(_)
rstrip(s) ==
    IF s # <<>> /\ s[Len(s)] \in Whitespace
    THEN rstrip(SubSeq(s, 1, Len(s) - 1))
    ELSE s

\* s.strip()
strip(s) == rstrip(lstrip(s))

\* s.startswith(prefix)
startswith(s, prefix) ==
    /\ Len(s) >= Len(prefix)
    /\ SubSeq(s, 1, Len(prefix)) = prefix

\* s.split(sep) for a one-character separator: the list of the parts
RECURSIVE split(_, _)
split(s, sep) ==
    IF \A i \in 1..Len(s) : s[i] # sep
    THEN <<s>>
    ELSE LET k == CHOOSE i \in 1..Len(s) :
                      /\ s[i] = sep
                      /\ \A j \in 1..(i - 1) : s[j] # sep
         IN  <<SubSeq(s, 1, k - 1)>> \o split(SubSeq(s, k + 1, Len(s)), sep)

\* s[start:] with a 0-based start
slice_from(s, start) ==
    IF start >= Len(s) THEN <<>> ELSE SubSeq(s, start + 1, Len(s))

\* s[:stop] with a 0-based stop
slice_to(s, stop) ==
    IF stop >= Len(s) THEN s ELSE SubSeq(s, 1, stop)

LowerLetters ==
    <<"a", "b", "c", "d", "e", "f", "g", "h", "i", "j", "k", "l", "m",
      "n", "o", "p", "q", "r", "s", "t", "u", "v", "w", "x", "y", "z">>

UpperLetters ==
    <<"A", "B", "C", "D", "E", "F", "G", "H", "I", "J", "K", "L", "M",
      "N", "O", "P", "Q", "R", "S", "T", "U", "V", "W", "X", "Y", "Z">>

\* s.upper() on 7-bit text
upper(s) ==
    [i \in 1..Len(s) |->
        IF \E k \in 1..26 : LowerLetters[k] = s[i]
        THEN UpperLetters[CHOOSE k \in 1..26 : LowerLetters[k] = s[i]]
        ELSE s[i]]

----------------------------------------------------------------------------
(* Numbers *)

LowerHexDigits ==
    <<"0", "1", "2", "3", "4", "5", "6", "7", "8", "9",
      "a", "b", "c", "d", "e", "f">>

UpperHexDigits ==
    <<"0", "1", "2", "3", "4", "5", "6", "7", "8", "9",
      "A", "B", "C", "D", "E", "F">>

IsHexDigit(c) ==
    \E k \in 1..16 : LowerHexDigits[k] = c \/ UpperHexDigits[k] = c

HexDigitValue(c) ==
    (CHOOSE k \in 1..16 : LowerHexDigits[k] = c \/ UpperHexDigits[k] = c) - 1

RECURSIVE DigitsValue(_)
DigitsValue(s) ==
    IF s = <<>> THEN 0
    ELSE 16 * DigitsValue(SubSeq(s, 1, Len(s) - 1)) + HexDigitValue(s[Len(s)])

\* the result of int(s, 16) when it raises ValueError
ValueError == -1

\* int(s, 16): surrounding whitespace and one "0x" prefix are accepted
int16(s) ==
    LET t == strip(s)
        d == IF Len(t) >= 2 /\ t[1] = "0" /\ t[2] \in {"x", "X"}
             THEN SubSeq(t, 3, Len(t))
             ELSE t
    IN  IF d # <<>> /\ \A i \in 1..Len(d) : IsHexDigit(d[i])
        THEN DigitsValue(d)
        ELSE ValueError

\* "{:x}".format(n): lowercase hexadecimal digits, no padding
RECURSIVE format_x(_)
format_x(n) ==
    IF n < 16 THEN <<LowerHexDigits[n + 1]>>
    ELSE format_x(n \div 16) \o <<LowerHexDigits[(n % 16) + 1]>>

\* "{:04x}".format(n): zero-padded on the left to a width of at least 4
format_04x(n) ==
    LET d == format_x(n)
    IN  [i \in 1..(IF Len(d) < 4 THEN 4 - Len(d) ELSE 0) |-> "0"] \o d

----------------------------------------------------------------------------
(* Text encodings of the runtime *)

\* the result of decoding a byte that is not a character of the encoding
UnicodeDecodeError == -1

\* bytes 0x80..0x9F of cp1252 (0x81, 0x8D, 0x8F, 0x90, 0x9D are undefined)
Cp1252High ==
    <<8364, UnicodeDecodeError, 8218, 402, 8222, 8230, 8224, 8225,
      710, 8240, 352, 8249, 338, UnicodeDecodeError, 381, UnicodeDecodeError,
      UnicodeDecodeError, 8216, 8217, 8220, 8221, 8226, 8211, 8212,
      732, 8482, 353, 8250, 339, UnicodeDecodeError, 382, 376>>

\* ord(bytes([b]).decode(encoding)), or UnicodeDecodeError
decode(b, encoding) ==
    CASE encoding = "ascii" -> IF b < 128 THEN b ELSE UnicodeDecodeError
      [] encoding = "cp1252" ->
            IF b >= 128 /\ b < 160 THEN Cp1252High[b - 127] ELSE b
      [] OTHER -> b   \* latin_1

----------------------------------------------------------------------------
(* Files *)

\* a file that does not exist
NoFile == [exists |-> FALSE, ascii |-> TRUE, lines |-> <<>>]

\* a file of 7-bit text, as the list of its lines (text.split("\n"))
TextFile(lines) == [exists |-> TRUE, ascii |-> TRUE, lines |-> lines]

\* a file holding a byte above 0x7F
BinaryFile == [exists |-> TRUE, ascii |-> FALSE, lines |-> <<>>]

FileNames == {"CP01252.txt", "CP01140.txt", "CP00037.txt", "CP09999.txt"}

\* what self.url serves: a file of a known encoding (cp1252), a target
\* file with the same descriptions (CP01140), a target file with one more
\* description (CP00037), and nothing under the fourth name
Remote ==
    [f \in FileNames |->
        CASE f = "CP01252.txt" ->
                TextFile(<<LineHeader, LineRecA, LineRecEuro>>)
          [] f = "CP01140.txt" ->
                TextFile(<<LineHeader, LineRecC1, LineRecEbcdicEuro>>)
          [] f = "CP00037.txt" ->
                TextFile(<<LineHeader, LineRecC1, LineRecCent>>)
          [] OTHER -> NoFile]

\* _get_data: the local file if there is one, else the remote one
_get_data(filename) ==
    IF cp_source[filename].exists THEN cp_source[filename]
    ELSE Remote[filename]

\* _get_data: a file fetched from the url is copied to cp_source_dir
source_after_get_data(filename) ==
    IF ~cp_source[filename].exists /\ Remote[filename].exists
    THEN [cp_source EXCEPT ![filename] = Remote[filename]]
    ELSE cp_source

----------------------------------------------------------------------------
(* Vendor File Parser *)

\* "* Code Page"
HeaderMarker ==
    <<"*", " ", "C", "o", "d", "e", " ", "P", "a", "g", "e">>

\* an item the generator yields: a str (header) or a 2-tuple (record)
StrItem(s) == [type |-> "str", value |-> s]
TupleItem(hex_number, description) ==
    [type |-> "tuple", value |-> <<hex_number, description>>]

\* re.match("^[0-9A-F]{2} .*$", line)
re_match(line) ==
    /\ Len(line) >= 3
    /\ \E k \in 1..16 : UpperHexDigits[k] = line[1]
    /\ \E k \in 1..16 : UpperHexDigits[k] = line[2]
    /\ line[3] = " "

\* the for loop with the header branch yielding nothing
RECURSIVE parse_lines_no_header(_)
parse_lines_no_header(lines) ==
    IF lines = <<>> THEN [items |-> <<>>, exc |-> "none"]
    ELSE
      LET line == Head(lines)
          rest == parse_lines_no_header(Tail(lines))
      IN  IF startswith(line, HeaderMarker)
          THEN IF Len(split(line, ":")) < 2
               THEN [items |-> <<>>, exc |-> "IndexError"]
               ELSE rest
          ELSE IF re_match(line)
          THEN [items |-> <<TupleItem(<<"0", "x">> \o slice_to(line, 2),
                                      strip(slice_from(line, 19)))>>
                             \o rest.items,
                exc |-> rest.exc]
          ELSE rest

\* the body of the generator's for loop: the items yielded before the
\* generator ends (exc = "none") or raises (exc = the exception)
RECURSIVE parse_lines(_)
parse_lines(lines) ==
    IF lines = <<>> THEN [items |-> <<>>, exc |-> "none"]
    ELSE
      LET line == Head(lines)
          rest == parse_lines(Tail(lines))
      IN  IF startswith(line, HeaderMarker)
          THEN IF Len(split(line, ":")) < 2
               THEN [items |-> <<>>, exc |-> "IndexError"]
               ELSE [items |-> <<StrItem(strip(split(line, ":")[2]))>>
                                  \o rest.items,
                     exc |-> rest.exc]
          ELSE IF re_match(line)
          THEN [items |-> <<TupleItem(<<"0", "x">> \o slice_to(line, 2),
                                      strip(slice_from(line, 19)))>>
                             \o rest.items,
                exc |-> rest.exc]
          ELSE rest

\* _parse_ibm_file(filename), run to its end
_parse_ibm_file(filename) ==
    LET file == _get_data(filename)
    IN  IF ~file.exists THEN [items |-> <<>>, exc |-> "URLError"]
        ELSE IF ~file.ascii THEN [items |-> <<>>, exc |-> "UnicodeDecodeError"]
        ELSE parse_lines(file.lines)

\* "for hex_number, description in gen": a 2-tuple unpacks to its members,
\* a str of two characters to its characters, anything else raises
can_unpack(item) == Len(item.value) = 2
unpack(item) ==
    IF item.type = "tuple" THEN item.value
    ELSE <<<<item.value[1]>>, <<item.value[2]>>>>

----------------------------------------------------------------------------
(* Description Resolver *)

EmptyDict == [d \in {} |-> <<>>]

\* ret[description] = unicode
dict_set(dict, key, value) ==
    [k \in DOMAIN dict \cup {key} |-> IF k = key THEN value ELSE dict[k]]

\* dict.update(other)
dict_update(dict, other) ==
    [k \in DOMAIN dict \cup DOMAIN other |->
        IF k \in DOMAIN other THEN other[k] ELSE dict[k]]

unicode_string_lowercase(code_point) == <<"0", "x">> \o format_04x(code_point)

\* "0x" + "{:04x}".format(ord(c)).upper()
unicode_string(code_point) == <<"0", "x">> \o upper(format_04x(code_point))

\* the for loop of _get_unicode_by_description over the items after the
\* first; end_exc is what the generator does after its last item
RECURSIVE resolve_records(_, _, _, _)
resolve_records(encoding, items, end_exc, ret) ==
    IF items = <<>>
    THEN [ret |-> IF end_exc = "none" THEN ret ELSE EmptyDict, exc |-> end_exc]
    ELSE
      LET item == Head(items) IN
      IF ~can_unpack(item) THEN [ret |-> EmptyDict, exc |-> "ValueError"]
      ELSE
        LET hex_number == unpack(item)[1]
            description == unpack(item)[2]
            b == int16(hex_number)
            c == decode(b, encoding)
        IN  IF b = ValueError THEN [ret |-> EmptyDict, exc |-> "ValueError"]
            ELSE IF c = UnicodeDecodeError
            THEN [ret |-> EmptyDict, exc |-> "UnicodeDecodeError"]
            ELSE resolve_records(encoding, Tail(items), end_exc,
                                 dict_set(ret, description, unicode_string(c)))

\* _get_unicode_by_description(encoding, filename)
_get_unicode_by_description(encoding, filename) ==
    LET gen == _parse_ibm_file(filename)
    IN  IF gen.items = <<>>
        THEN [ret |-> EmptyDict,
              exc |-> IF gen.exc = "none" THEN "StopIteration" ELSE gen.exc]
        ELSE resolve_records(encoding, Tail(gen.items), gen.exc, EmptyDict)

----------------------------------------------------------------------------
(* Description Map Store *)

\* self.data as set by __init__
DefaultData == [filenames |-> <<>>, unicode_by_description |-> EmptyDict]

\* a description map with the key update_description_map reads
EmptyEncodingsData == [encodings |-> <<>>, unicode_by_description |-> EmptyDict]

\* a description map stored by a run that resolved cp1252 from CP01252.txt
Cp1252Data ==
    [encodings |-> <<"cp1252">>,
     unicode_by_description |->
        [d \in {DescLatinA, DescEuro} |->
            IF d = DescLatinA THEN <<"0", "x", "0", "0", "4", "1">>
            ELSE <<"0", "x", "2", "0", "A", "C">>]]

\* the states of the persisted file: absent, not openable (a directory),
\* text that is not JSON, or the JSON text of a description map
MissingFile == [kind |-> "missing", value |-> DefaultData]
DirectoryFile == [kind |-> "directory", value |-> DefaultData]
CorruptFile == [kind |-> "corrupt", value |-> DefaultData]
JsonFile(value) == [kind |-> "json", value |-> value]

PersistedStates ==
    {MissingFile, DirectoryFile, CorruptFile,
     JsonFile(EmptyEncodingsData), JsonFile(Cp1252Data)}

\* the exception Path.open("r") + json.load raise on the persisted file
load_exception(file) ==
    CASE file.kind = "missing" -> "FileNotFoundError"
      [] file.kind = "directory" -> "IsADirectoryError"
      [] file.kind = "corrupt" -> "JSONDecodeError"
      [] OTHER -> "none"

\* "except IOError": the exception classes the handler catches
IsIOError(exc) == exc \in {"FileNotFoundError", "IsADirectoryError"}

\* "encoding in self.data['encodings']"
already_resolved_never(encodings, encoding) == FALSE

already_resolved(encodings, encoding) ==
    \E i \in 1..Len(encodings) : encodings[i] = encoding

NoDest == [exists |-> FALSE, lines |-> <<>>]

\* the call recorded in last
Call(op, encoding, filename, dest) ==
    [op |-> op, encoding |-> encoding, filename |-> filename,
     data |-> data, dest |-> dest]

\* retrieve_description_map()
retrieve_description_map ==
    /\ last' = Call("retrieve", "", "", NoDest)
    /\ data' = IF load_exception(stored) = "none" THEN stored.value ELSE data
    /\ raised' = IF IsIOError(load_exception(stored)) THEN "none"
                 ELSE load_exception(stored)
    /\ UNCHANGED <<stored, cp_source, cp_dest>>

\* update_description_map(encoding, filename)
update_description_map(encoding, filename) ==
    /\ last' = Call("update", encoding, filename, NoDest)
    /\ IF "encodings" \notin DOMAIN data
       THEN /\ raised' = "KeyError"
            /\ UNCHANGED <<data, cp_source>>
       ELSE IF already_resolved(data.encodings, encoding)
       THEN /\ raised' = "none"
            /\ UNCHANGED <<data, cp_source>>
       ELSE LET appended == [data EXCEPT !.encodings = Append(@, encoding)]
                r == _get_unicode_by_description(encoding, filename)
            IN  /\ data' =
                     IF r.exc = "none"
                     THEN [appended EXCEPT !.unicode_by_description =
                                              dict_update(@, r.ret)]
                     ELSE appended
                /\ raised' = r.exc
                /\ cp_source' = source_after_get_data(filename)
    /\ UNCHANGED <<stored, cp_dest>>

\* store_description_map()
store_description_map ==
    /\ last' = Call("store", "", "", NoDest)
    /\ IF stored.kind = "directory"
       THEN raised' = "IsADirectoryError" /\ UNCHANGED stored
       ELSE raised' = "none" /\ stored' = JsonFile(data)
    /\ UNCHANGED <<data, cp_source, cp_dest>>

----------------------------------------------------------------------------
(* Codepage Rewriter *)

format_line_as_is(hex_number, unicode, description) ==
    hex_number \o <<"\t">> \o unicode \o <<"\t", "#", " ">>
        \o description \o <<"\n">>

\* "{}\t{}\t# {}\n".format(hex_number, unicode, description.upper())
format_line(hex_number, unicode, description) ==
    hex_number \o <<"\t">> \o unicode \o <<"\t", "#", " ">>
        \o upper(description) \o <<"\n">>

\* the for loop of write_codepage_map with "continue" on an unknown key
RECURSIVE write_records_skipping(_, _, _, _)
write_records_skipping(unicode_by_description, items, end_exc, lines) ==
    IF items = <<>> THEN [lines |-> lines, exc |-> end_exc]
    ELSE
      LET item == Head(items) IN
      IF ~can_unpack(item) THEN [lines |-> lines, exc |-> "ValueError"]
      ELSE
        LET hex_number == unpack(item)[1]
            description == unpack(item)[2]
        IN  write_records_skipping(unicode_by_description, Tail(items), end_exc,
                IF description \notin DOMAIN unicode_by_description
                THEN lines
                ELSE Append(lines,
                        format_line(hex_number,
                                    unicode_by_description[description],
                                    description)))

\* the for loop of write_codepage_map over the items after the first:
\* the lines written to d before the loop ends or raises
RECURSIVE write_records(_, _, _, _)
write_records(unicode_by_description, items, end_exc, lines) ==
    IF items = <<>> THEN [lines |-> lines, exc |-> end_exc]
    ELSE
      LET item == Head(items) IN
      IF ~can_unpack(item) THEN [lines |-> lines, exc |-> "ValueError"]
      ELSE
        LET hex_number == unpack(item)[1]
            description == unpack(item)[2]
        IN  IF description \notin DOMAIN unicode_by_description
            THEN [lines |-> lines, exc |-> "KeyError"]
            ELSE write_records(unicode_by_description, Tail(items), end_exc,
                    Append(lines,
                        format_line(hex_number,
                                    unicode_by_description[description],
                                    description)))

\* write_codepage_map(filename): dest_path is opened for writing (created
\* or truncated) before the source is parsed, and closed on every exit
write_codepage_map(filename) ==
    LET gen == _parse_ibm_file(filename)
        w == IF gen.items = <<>>
             THEN [lines |-> <<>>,
                   exc |-> IF gen.exc = "none" THEN "StopIteration"
                           ELSE gen.exc]
             ELSE write_records(data.unicode_by_description, Tail(gen.items),
                                gen.exc, <<>>)
    IN  /\ last' = Call("write", "", filename, cp_dest[filename])
        /\ cp_dest' = [cp_dest EXCEPT
                          ![filename] = [exists |-> TRUE, lines |-> w.lines]]
        /\ raised' = w.exc
        /\ cp_source' = source_after_get_data(filename)
        /\ UNCHANGED <<data, stored>>

----------------------------------------------------------------------------
(* The command line and the __main__ script *)

\* the encodings named on the command lines drawn
MainEncodings == {"ascii", "cp1252"}

\* the sequences over S of length lo..hi
SeqsOf(S, lo, hi) == UNION {[1..n -> S] : n \in lo..hi}

\* args.update is None without --update, else the list of the pairs given
UpdateNone == [is_none |-> TRUE, list |-> <<>>]
UpdateList(list) == [is_none |-> FALSE, list |-> list]

\* the vendor files named in --update pairs and as targets
BootFiles == {"CP01252.txt", "CP09999.txt"}
TargetFiles == {"CP01140.txt", "CP00037.txt", "CP09999.txt"}

ArgsSet ==
    [update : {UpdateNone}
                \cup {UpdateList(l) :
                        l \in SeqsOf(MainEncodings \X BootFiles, 1, MaxUpdates)},
     filename : SeqsOf(TargetFiles, 1, MaxTargets)]

\* an output file left by an earlier run
StaleDest == [exists |-> TRUE, lines |-> <<<<"s", "t", "a", "l", "e", "\n">>>>]

InitLast ==
    [op |-> "init", encoding |-> "", filename |-> "",
     data |-> DefaultData, dest |-> NoDest]

\* the state after CodepageFormatter(...) is constructed by __main__
Init ==
    /\ data = DefaultData
    /\ stored \in PersistedStates
    /\ cp_source = [f \in FileNames |-> NoFile]
    /\ cp_dest = [f \in FileNames |-> NoDest]
    /\ args \in ArgsSet
    /\ pc = "retrieve"
    /\ idx = 1
    /\ raised = "none"
    /\ last = InitLast

\* after a call: the script goes on, or the exception ends the process
Continue(next_pc, next_idx) ==
    /\ pc' = IF raised' = "none" THEN next_pc ELSE "exit"
    /\ idx' = IF raised' = "none" THEN next_idx ELSE idx

\* cp_formatter.retrieve_description_map()
MainRetrieve ==
    /\ pc = "retrieve"
    /\ retrieve_description_map
    /\ Continue("update", 1)
    /\ UNCHANGED args

\* for python_encoding, IBM_cp_name in args.update: one iteration, or the
\* TypeError of iterating over None
MainUpdate ==
    /\ pc = "update"
    /\ IF args.update.is_none
       THEN /\ raised' = "TypeError"
            /\ last' = Call("for_update", "", "", NoDest)
            /\ UNCHANGED <<data, stored, cp_source, cp_dest>>
       ELSE update_description_map(args.update.list[idx][1],
                                   args.update.list[idx][2])
    /\ IF ~args.update.is_none /\ idx = Len(args.update.list)
       THEN Continue("store", 1)
       ELSE Continue("update", idx + 1)
    /\ UNCHANGED args

\* cp_formatter.store_description_map()
MainStore ==
    /\ pc = "store"
    /\ store_description_map
    /\ Continue("write", 1)
    /\ UNCHANGED args

\* for filename in args.filename: one iteration
MainWrite ==
    /\ pc = "write"
    /\ write_codepage_map(args.filename[idx])
    /\ IF idx = Len(args.filename)
       THEN Continue("done", idx)
       ELSE Continue("write", idx + 1)
    /\ UNCHANGED args

Next == MainRetrieve \/ MainUpdate \/ MainStore \/ MainWrite

Spec == Init /\ [][Next]_vars

----------------------------------------------------------------------------
(* The methods called on vendor files drawn from LineSet *)

\* the encodings the methods are called with
Encodings == {"ascii", "latin_1"}

\* the name the drawn file is stored under in cp_source_dir
ApiFile == "CP01252.txt"

UpperHexSet == {UpperHexDigits[k] : k \in 1..16}

\* a line that begins with the header marker
IsHeaderLine(line) == startswith(line, HeaderMarker)

\* a line whose first two characters are uppercase hexadecimal digits
\* followed by a space
IsRecordLine(line) ==
    /\ Len(line) >= 3
    /\ line[1] \in UpperHexSet
    /\ line[2] \in UpperHexSet
    /\ line[3] = " "

HasColon(line) == \E k \in 1..Len(line) : line[k] = ":"

\* a file in the vendor format: one header line, which has its colon and
\* precedes every record line
VendorFormat(lines) ==
    \E h \in 1..Len(lines) :
        /\ IsHeaderLine(lines[h])
        /\ HasColon(lines[h])
        /\ \A j \in 1..Len(lines) : j # h => ~IsHeaderLine(lines[j])
        /\ \A j \in 1..(h - 1) : ~IsRecordLine(lines[j])

\* the files of up to MaxLines lines that are in the vendor format
VendorFiles ==
    {TextFile(lines) :
        lines \in {l \in SeqsOf(LineSet, 1, MaxLines) : VendorFormat(l)}}

\* every 7-bit text of up to MaxLines lines, and a file that is not 7-bit
InputFiles ==
    {TextFile(lines) : lines \in SeqsOf(LineSet, 0, MaxLines)}
        \cup {BinaryFile}

\* the state after construction and a retrieve_description_map() that
\* loaded a stored description map, with the files given in cp_source_dir
InitWith(files) ==
    /\ stored \in {JsonFile(EmptyEncodingsData), JsonFile(Cp1252Data)}
    /\ data = stored.value
    /\ cp_source \in {[f \in FileNames |-> IF f = ApiFile THEN file ELSE NoFile] :
                        file \in files}
    /\ cp_dest = [f \in FileNames |-> StaleDest]
    /\ args = [update |-> UpdateNone, filename |-> <<ApiFile>>]
    /\ pc = "api"
    /\ idx = 1
    /\ raised = "none"
    /\ last = [InitLast EXCEPT !.op = "retrieve"]

CallUpdate ==
    /\ pc = "api"
    /\ \E encoding \in Encodings : update_description_map(encoding, ApiFile)
    /\ UNCHANGED <<args, pc, idx>>

CallWrite ==
    /\ pc = "api"
    /\ write_codepage_map(ApiFile)
    /\ UNCHANGED <<args, pc, idx>>

\* bootstraps and rewrites of a file in the vendor format
InitApi == InitWith(VendorFiles)
NextApi == CallUpdate \/ CallWrite
SpecApi == InitApi /\ [][NextApi]_vars

\* rewrites of an arbitrary file
InitParse == InitWith(InputFiles)
NextParse == CallWrite
SpecParse == InitParse /\ [][NextParse]_vars

----------------------------------------------------------------------------
(* Vocabulary of the properties *)

\* the encodings a description map lists as resolved
Resolved(d) ==
    IF "encodings" \in DOMAIN d
    THEN {d.encodings[i] : i \in 1..Len(d.encodings)}
    ELSE {}

\* the record lines of a file, in file order
RecordLines(lines) == SelectSeq(lines, IsRecordLine)

\* the byte value a record line states
ByteOf(line) == 16 * HexDigitValue(line[1]) + HexDigitValue(line[2])

\* the description of a record line: the text from column 19 on, trimmed
DescriptionOf(line) == strip(slice_from(line, 19))

\* u is "0x" followed by four uppercase hexadecimal digits of value n
IsCanonical(u, n) ==
    /\ Len(u) = 6
    /\ u[1] = "0"
    /\ u[2] = "x"
    /\ \A k \in 3..6 : u[k] \in UpperHexSet
    /\ DigitsValue(SubSeq(u, 3, 6)) = n

\* the vendor file the last call was given
LastFile == _get_data(last.filename)

\* the last call was a bootstrap that ran the resolver
Bootstrapped ==
    /\ last.op = "update"
    /\ "encodings" \in DOMAIN last.data
    /\ last.encoding \notin Resolved(last.data)

\* the output line of a record line under the description map
ExpectedLine(line) ==
    <<"0", "x", line[1], line[2], "\t">>
        \o data.unicode_by_description[DescriptionOf(line)]
        \o <<"\t", "#", " ">> \o upper(DescriptionOf(line)) \o <<"\n">>

\* the record lines before the first whose description is not in the map
RECURSIVE ResolvedPrefix(_)
ResolvedPrefix(lines) ==
    IF lines = <<>> THEN <<>>
    ELSE IF DescriptionOf(Head(lines)) \notin DOMAIN data.unicode_by_description
    THEN <<>>
    ELSE <<Head(lines)>> \o ResolvedPrefix(Tail(lines))

\* "0x80<TAB>0x20AC<TAB># EURO SIGN<NEWLINE>"
OutEuro ==
    <<"0", "x", "8", "0", "\t", "0", "x", "2", "0", "A", "C", "\t", "#", " ",
      "E", "U", "R", "O", " ", "S", "I", "G", "N", "\n">>

\* "0x0041", "0x00C1"
U0041 == <<"0", "x", "0", "0", "4", "1">>
U00C1 == <<"0", "x", "0", "0", "C", "1">>

\* "TTER A"
DescTterA == <<"T", "T", "E", "R", " ", "A">>

----------------------------------------------------------------------------
(* Properties *)

\* C1: loading the persisted description map never raises; when the file
\* is missing, unreadable or not JSON the call returns normally and the
\* map stays at its empty default.
C1_LoadNeverRaises ==
    last.op = "retrieve" =>
        /\ raised = "none"
        /\ stored.kind # "json" => data = DefaultData

\* C2: from the empty default map, the bootstrap of an encoding not yet
\* resolved completes without raising, merges the file's entries and
\* records the encoding (here cp1252 from CP01252.txt).
C2_BootstrapFromDefault ==
    (/\ last.op = "update"
     /\ last.data = DefaultData
     /\ last.encoding = "cp1252"
     /\ last.filename = "CP01252.txt") =>
        /\ raised = "none"
        /\ "cp1252" \in Resolved(data)
        /\ DescLatinA \in DOMAIN data.unicode_by_description
        /\ data.unicode_by_description[DescLatinA] = U0041

\* C3 as stated: after header line "* Code Page : 923", the record line
\* "41 LATIN CAPITAL LETTER A" yields "LATIN CAPITAL LETTER A" -> "0x0041"
\* under an encoding that decodes 0x41 to 'A'.
C3_SpecExampleLine ==
    (/\ Bootstrapped
     /\ raised = "none"
     /\ LastFile.lines = <<LineHeader, LineRecSpecA>>) =>
        /\ DescLatinA \in DOMAIN data.unicode_by_description
        /\ data.unicode_by_description[DescLatinA] = U0041

\* C3 amended: for a file in the vendor format and an encoding that decodes
\* every record's byte, the resolver returns, and the map sends each
\* record's description (the text from column 19 on, trimmed) to "0x" and
\* the 4-digit uppercase hexadecimal code point of the decoded byte, the
\* last record winning; "41 LA020000        LATIN CAPITAL LETTER A" yields
\* "LATIN CAPITAL LETTER A" -> "0x0041", "41 LATIN CAPITAL LETTER A"
\* yields "TTER A" -> "0x0041".
C3_Resolver ==
    LET recs == RecordLines(LastFile.lines) IN
    (/\ Bootstrapped
     /\ LastFile.ascii
     /\ VendorFormat(LastFile.lines)
     /\ \A i \in 1..Len(recs) :
            decode(ByteOf(recs[i]), last.encoding) # UnicodeDecodeError) =>
        /\ raised = "none"
        /\ \A i \in 1..Len(recs) :
              (\A j \in (i + 1)..Len(recs) :
                    DescriptionOf(recs[j]) # DescriptionOf(recs[i])) =>
                 /\ DescriptionOf(recs[i])
                        \in DOMAIN data.unicode_by_description
                 /\ IsCanonical(
                        data.unicode_by_description[DescriptionOf(recs[i])],
                        decode(ByteOf(recs[i]), last.encoding))
        /\ (\E i \in 1..Len(recs) : recs[i] = LineRecSpecA) =>
              DescTterA \in DOMAIN data.unicode_by_description
        /\ (recs = <<LineRecA>>) =>
              data.unicode_by_description[DescLatinA] = U0041

\* C3 witness: a bootstrap under latin_1 of a header and two records of
\* the same description, the last of which (byte C1) wins.
C3_Witness ==
    /\ Bootstrapped
    /\ raised = "none"
    /\ last.encoding = "latin_1"
    /\ LastFile.lines = <<LineHeader, LineRecA, LineRecC1>>
    /\ data.unicode_by_description[DescLatinA] = U00C1

\* C4 as stated: each output line begins with the record's two hexadecimal
\* byte digits followed by a TAB.
C4_BareByteDigits ==
    LET recs == RecordLines(LastFile.lines) IN
    (/\ last.op = "write"
     /\ LastFile.ascii
     /\ VendorFormat(LastFile.lines)
     /\ \A i \in 1..Len(recs) :
            DescriptionOf(recs[i]) \in DOMAIN data.unicode_by_description) =>
        /\ raised = "none"
        /\ Len(cp_dest[last.filename].lines) = Len(recs)
        /\ \A i \in 1..Len(recs) :
              SubSeq(cp_dest[last.filename].lines[i], 1, 3)
                 = <<recs[i][1], recs[i][2], "\t">>

\* C4 amended: rewriting a file in the vendor format whose every record
\* description is a key of the map writes one line per record, in file
\* order, of the form 0xHH<TAB>0xHHHH<TAB># DESCRIPTION<NEWLINE>: "0x" and
\* the record's two byte digits, the value mapped to the description, and
\* the description upper-cased.
C4_Rewrite ==
    LET recs == RecordLines(LastFile.lines) IN
    (/\ last.op = "write"
     /\ LastFile.ascii
     /\ VendorFormat(LastFile.lines)
     /\ \A i \in 1..Len(recs) :
            DescriptionOf(recs[i]) \in DOMAIN data.unicode_by_description) =>
        /\ raised = "none"
        /\ cp_dest[last.filename].exists
        /\ cp_dest[last.filename].lines
              = [i \in 1..Len(recs) |-> ExpectedLine(recs[i])]
        /\ \A i \in 1..Len(recs) :
              (/\ recs[i] = LineRecEuro
               /\ data.unicode_by_description[DescEuro]
                     = <<"0", "x", "2", "0", "A", "C">>) =>
                 cp_dest[last.filename].lines[i] = OutEuro

\* C4 witness: a rewrite that wrote two lines, one of them for a
\* description given in mixed case.
C4_Witness ==
    /\ last.op = "write"
    /\ raised = "none"
    /\ LastFile.lines = <<LineHeader, LineRecA, LineRecEuro>>
    /\ Len(cp_dest[last.filename].lines) = 2
    /\ cp_dest[last.filename].lines[2] = OutEuro

C6_Idempotent ==
    /\ (last.op = "update" /\ last.encoding \in Resolved(last.data)) =>
          raised = "none" /\ data = last.data
    /\ "encodings" \in DOMAIN data =>
          \A i, j \in 1..Len(data.encodings) :
              data.encodings[i] = data.encodings[j] => i = j

\* C6 witness: a run given the same --update pair twice; the first
\* bootstrap merged the file's entries and the second left them alone.
C6_Witness ==
    /\ pc = "store"
    /\ last.op = "update"
    /\ raised = "none"
    /\ ~args.update.is_none
    /\ Len(args.update.list) = 2
    /\ args.update.list[1] = args.update.list[2]
    /\ last.data = data
    /\ data.encodings = <<last.encoding>>
    /\ DescLatinA \in DOMAIN data.unicode_by_description

\* C7: a run given target filenames and no --update pair does not end
\* before its first rewrite (the persisted file being loadable or absent).
C7_UpdateOptional ==
    (/\ args.update.is_none
     /\ pc = "exit"
     /\ stored.kind \in {"missing", "json"}) =>
        last.op = "write"

\* the items the parser is to yield on the lines: a header item holding
\* everything after the first colon, trimmed, per header line and a record
\* item per record line
RECURSIVE ClaimedItems(_)
ClaimedItems(lines) ==
    IF lines = <<>> THEN <<>>
    ELSE LET line == Head(lines)
             colon == CHOOSE k \in 1..(Len(line) + 1) :
                         /\ k <= Len(line) => line[k] = ":"
                         /\ \A j \in 1..(k - 1) : line[j] # ":"
         IN  (IF IsHeaderLine(line)
              THEN <<<<"header", strip(slice_from(line, colon))>>>>
              ELSE IF IsRecordLine(line) THEN <<<<"record", <<>>>>>>
              ELSE <<>>)
             \o ClaimedItems(Tail(lines))

\* C8: on every 7-bit text the parser does not raise and yields, in line
\* order, a header item (everything after the first colon, trimmed) per
\* header line, a record item per record line, and nothing else.
C8_ParserTotalAndExact ==
    (last.op = "write" /\ LastFile.ascii) =>
        LET p == parse_lines(LastFile.lines) IN
        /\ p.exc = "none"
        /\ [i \in 1..Len(p.items) |->
              IF p.items[i].type = "str"
              THEN <<"header", p.items[i].value>>
              ELSE <<"record", <<>>>>]
           = ClaimedItems(LastFile.lines)

\* C9: for every file in the vendor format the first item parsed is the
\* header and every later item a record, so that discarding the first item
\* discards no record: a rewrite that returns wrote one line per record
\* line, and a bootstrap that returns holds an entry for the description
\* of every record line.
C9_HeaderFirst ==
    LET recs == RecordLines(LastFile.lines)
        p == parse_lines(LastFile.lines)
    IN
    (/\ last.op \in {"write", "update"}
     /\ LastFile.ascii
     /\ VendorFormat(LastFile.lines)) =>
        /\ p.exc = "none"
        /\ Len(p.items) = 1 + Len(recs)
        /\ p.items[1].type = "str"
        /\ \A i \in 2..Len(p.items) : p.items[i].type = "tuple"
        /\ (last.op = "write" /\ raised = "none") =>
              Len(cp_dest[last.filename].lines) = Len(recs)
        /\ (Bootstrapped /\ raised = "none") =>
              \A i \in 1..Len(recs) :
                  DescriptionOf(recs[i]) \in DOMAIN data.unicode_by_description

\* C9 witness: a bootstrap that returned on a file whose header follows a
\* skipped line and precedes its only record.
C9_Witness ==
    /\ Bootstrapped
    /\ raised = "none"
    /\ LastFile.lines = <<LineLowerHex, LineHeaderTwoColons, LineRecSpecA>>
    /\ DOMAIN data.unicode_by_description = {DescTterA}

\* C10: a bootstrap that fails leaves the description map unchanged, so
\* that no encoding is recorded as resolved without its entries.
C10_FailedBootstrapLeavesMap ==
    (last.op = "update" /\ raised # "none") => data = last.data

============================================================================
